---- MODULE Spec2Model ----
(***************************************************************************)
(* Model of data_clean/preprocessing.py: the MIDI corpus filter.           *)
(*                                                                         *)
(*   Preprocess(argv)      _cli_arg_parser, then _file_filter (the walk)   *)
(*   piano_roll_filter()   generate_midi_files_report, aggregation_report, *)
(*                         the admission loop, np.hstack, transpose        *)
(*                                                                         *)
(* pretty_midi is a collaborator: a file is modelled by what the code      *)
(* reads from it (does it parse, how many key/time signature changes, its  *)
(* key number, its estimated tempo, its note pitches, the number of frames *)
(* of its piano roll).                                                     *)
(*                                                                         *)
(* Tempos are floating-point numbers.  numpy's float64 arithmetic is       *)
(* modelled by a binary floating-point format with the same rounding rule  *)
(* (round to nearest, ties to even) and a significand of Precision bits    *)
(* instead of 53; a number is held as an integer count of Quantum-ths,     *)
(* Quantum being the spacing of the format's smallest numbers.  No tempo    *)
(* is large enough to overflow.                                            *)
(***************************************************************************)
EXTENDS Integers, Sequences, FiniteSets

\* ------------------------------------------------------------------ bounds
MaxFiles == 3
MaxChanges == 2
MaxFrames == 2
Precision == 3
MinTempo == 4
TempoSpan == 2
ArgvSlack == 1

\* ------------------------------------------------------- program constants
\* pretty_midi's piano roll has one row per MIDI pitch
PitchRows == 128

\* None, where an object is expected; NoError, where an exception is
None == [none |-> TRUE]
NoError == "no error"

\* --------------------------------------------------------- floating point
Quantum == 2 ^ (Precision + 2)

RECURSIVE BitLen(_)
BitLen(n) == IF n = 0 THEN 0 ELSE 1 + BitLen(n \div 2)

\* The representable number nearest to N/D (N >= 0, D > 0, in quanta), ties
\* going to the even significand.
RoundPos(N, D) ==
    LET q    == N \div D
        step == IF BitLen(q) > Precision THEN 2 ^ (BitLen(q) - Precision) ELSE 1
        c    == N \div (D * step)
        rem2 == 2 * (N - c * D * step)
    IN  IF rem2 < D * step \/ (rem2 = D * step /\ c % 2 = 0)
        THEN c * step
        ELSE (c + 1) * step

Round(N, D) == IF N >= 0 THEN RoundPos(N, D) ELSE 0 - RoundPos(0 - N, D)

FromInt(n) == Round(n * Quantum, 1)
fadd(x, y) == Round(x + y, 1)
fsub(x, y) == Round(x - y, 1)
fmul(x, y) == Round(x * y, Quantum)
fdiv(x, y) == Round(x * Quantum, y)

RECURSIVE isqrt(_)
isqrt(M) ==
    IF M < 2 THEN M
    ELSE LET r == 2 * isqrt(M \div 4)
         IN  IF (r + 1) * (r + 1) <= M THEN r + 1 ELSE r

\* Correctly rounded square root: the root is taken in half quanta, where
\* every rounding boundary is an integer, and an inexact root is marked by
\* a trailing half.
fsqrt(x) ==
    LET M == 4 * x * Quantum
        s == isqrt(M)
    IN  Round(2 * s + (IF s * s = M THEN 0 ELSE 1), 4)

\* ------------------------------------------------------------------ numpy
\* add.reduce over fewer than eight float64 values: a left-to-right loop,
\* each partial sum rounded.  The sum of no values is 0.
RECURSIVE np_sum(_)
np_sum(xs) ==
    IF xs = <<>> THEN 0
    ELSE IF Len(xs) = 1 THEN xs[1]
    ELSE fadd(np_sum(SubSeq(xs, 1, Len(xs) - 1)), xs[Len(xs)])

\* ndarray.mean(): sum / count; of an empty array it is nan (a warning, no
\* exception).
np_mean(xs) == IF xs = <<>> THEN "nan" ELSE fdiv(np_sum(xs), FromInt(Len(xs)))

\* ndarray.std(): sqrt(sum((x - mean)^2) / count), population form (ddof = 0)
np_std(xs) ==
    IF xs = <<>> THEN "nan"
    ELSE LET m  == np_mean(xs)
             sq == [i \in 1..Len(xs) |-> fmul(fsub(xs[i], m), fsub(xs[i], m))]
         IN  fsqrt(fdiv(np_sum(sq), FromInt(Len(xs))))

\* int(np.array(ints).mean()) for MIDI pitches: float64 holds the sum of the
\* pitches exactly and the quotient's rounding never reaches the next
\* integer, so the truncated mean is the integer quotient.
RECURSIVE SumInts(_)
SumInts(xs) == IF xs = <<>> THEN 0 ELSE xs[1] + SumInts(Tail(xs))

IntMean(xs) == SumInts(xs) \div Len(xs)

\* dict(Counter(keys)): the distinct keys in first-encounter order, each with
\* its count.
RECURSIVE Counter(_)
Counter(ks) ==
    IF ks = <<>> THEN <<>>
    ELSE LET prev == Counter(SubSeq(ks, 1, Len(ks) - 1))
             key  == ks[Len(ks)]
         IN  IF \E i \in 1..Len(prev) : prev[i][1] = key
             THEN [i \in 1..Len(prev) |->
                     IF prev[i][1] = key THEN <<key, prev[i][2] + 1>> ELSE prev[i]]
             ELSE Append(prev, <<key, 1>>)

\* sorted(items, key=count, reverse=True)[0][0]: the sort is stable, so the
\* head is the first-encountered key among those of greatest count.  On an
\* empty dict the [0] raises IndexError (see aggregate).
get_most_freq_value(items) ==
    LET i == CHOOSE i \in 1..Len(items) :
                    /\ \A j \in 1..Len(items) : items[j][2] <= items[i][2]
                    /\ \A j \in 1..(i - 1) : items[j][2] < items[i][2]
    IN  items[i][1]

Min(S) == CHOOSE x \in S : \A y \in S : x <= y
Max(S) == CHOOSE x \in S : \A y \in S : y <= x

\* (variant: the two pitch lists exchanged)
aggregation_report_swapped(self) ==
    [temp_mean     |-> np_mean(self.tempos),
     temp_std      |-> np_std(self.tempos),
     most_freq_key |-> get_most_freq_value(self.freq_key),
     min_pitch     |-> IntMean(self.max_pitch),
     max_pitch     |-> IntMean(self.min_pitch)]

\* FileReport.aggregation_report, once freq_key is known to be non-empty
aggregation_report(self) ==
    [temp_mean     |-> np_mean(self.tempos),
     temp_std      |-> np_std(self.tempos),
     most_freq_key |-> get_most_freq_value(self.freq_key),
     min_pitch     |-> IntMean(self.min_pitch),
     max_pitch     |-> IntMean(self.max_pitch)]

\* (variant: boundaries included)
is_in_tempo_range_closed(tempo, mean, std) ==
    tempo >= fsub(mean, std) /\ tempo <= fadd(mean, std)

is_in_tempo_range(tempo, mean, std) ==
    tempo > fsub(mean, std) /\ tempo < fadd(mean, std)

\* (variant: bounds excluded)
is_in_pitch_range_open(low_pitch, high_pitch, left_boundary, right_boundary) ==
    low_pitch > left_boundary /\ high_pitch < right_boundary

is_in_pitch_range(low_pitch, high_pitch, left_boundary, right_boundary) ==
    low_pitch >= left_boundary /\ high_pitch <= right_boundary

\* Length of a[start:stop] on an axis of n entries (Python slicing)
SliceLen(n, start, stop) ==
    LET clamp(i) == IF i < 0 THEN (IF i + n < 0 THEN 0 ELSE i + n)
                    ELSE IF i > n THEN n ELSE i
        d == clamp(stop) - clamp(start)
    IN  IF d > 0 THEN d ELSE 0

\* ------------------------------------------------------------ the corpus
ArgvLen == 2

Tempos  == {FromInt(t) : t \in MinTempo..(MinTempo + TempoSpan)}
Pitches == {60, 62}
KeyNumbers == {0, 1}

\* What pretty_midi.PrettyMIDI(path) gives for a file: an exception, or an
\* object with these attributes.
Unparseable ==
    [parses |-> FALSE, key_changes |-> 0, time_changes |-> 0, key_number |-> 0,
     tempo |-> FromInt(MinTempo), notes |-> {}, frames |-> 0]

Parsed(kc, tc, key, tempo, notes, frames) ==
    [parses |-> TRUE, key_changes |-> kc, time_changes |-> tc, key_number |-> key,
     tempo |-> tempo, notes |-> notes, frames |-> frames]

\* The corpora explored.  A corpus varies one group of attributes at a time:
\* what the loader looks at (parse outcome, signature counts), or what the
\* range filter looks at (tempo, pitches), or the key number and the length
\* of the piano roll among dropped files and two tempos.
LoaderKinds ==
    {Unparseable} \cup
    {Parsed(kc, tc, 0, FromInt(MinTempo), Pitches, 1) :
        <<kc, tc>> \in (0..MaxChanges) \X (0..MaxChanges)}

RangeKinds ==
    {Parsed(1, 1, 0, tempo, notes, 1) : <<tempo, notes>> \in Tempos \X (SUBSET Pitches)}

MixedKinds ==
    {Unparseable, Parsed(2, 1, 0, FromInt(MinTempo), Pitches, 1)} \cup
    {Parsed(1, 1, key, tempo, Pitches, frames) :
        <<key, tempo, frames>> \in
            KeyNumbers \X {FromInt(MinTempo), FromInt(MinTempo + 1)} \X {1, MaxFrames}}

SeqsUpTo(S, n) == UNION {[1..m -> S] : m \in 0..n}

Corpora ==
    SeqsUpTo(LoaderKinds, MaxFiles) \cup SeqsUpTo(RangeKinds, MaxFiles) \cup
    SeqsUpTo(MixedKinds, MaxFiles)

Argvs == [len : (ArgvLen - ArgvSlack)..(ArgvLen + ArgvSlack), isdir : BOOLEAN]

VARIABLES
    pc,          \* position of the run
    argv,        \* the argument list given to Preprocess, None before the call
    files,       \* the files under the root, in os.walk order
    idx,         \* files visited by _file_filter
    pms,         \* self.pms: retained tracks, as positions in files
    tempos, keys, min_pitchs, max_pitchs,  \* locals of generate_midi_files_report
    k,           \* tracks done by the current loop over self.pms
    report,      \* self.report, the FileReport
    agg,         \* the tuple aggregation_report returned
    piano_rolls, \* sliced piano rolls collected so far
    result,      \* what piano_roll_filter returned
    err          \* the exception that reached __main__

vars == <<pc, argv, files, idx, pms, tempos, keys, min_pitchs, max_pitchs, k,
          report, agg, piano_rolls, result, err>>

Init ==
    /\ pc = "main"
    /\ argv = None
    /\ files \in Corpora
    /\ idx = 0
    /\ pms = <<>>
    /\ tempos = <<>> /\ keys = <<>> /\ min_pitchs = <<>> /\ max_pitchs = <<>>
    /\ k = 0
    /\ report = None
    /\ agg = None
    /\ piano_rolls = <<>>
    /\ result = None
    /\ err = NoError

\* An exception on its way to __main__'s handler: logged, exit(1)
Raise(e) == pc' = "exit1" /\ err' = e

\* (variant: a path that is no directory is let through)
arg_error_no_isdir(a) ==
    IF a.len # ArgvLen THEN "ValueError: path of folder must be provided"
    ELSE NoError

\* What _cli_arg_parser raises for an argument list, NoError when it returns
arg_error(a) ==
    IF a.len # ArgvLen THEN "ValueError: path of folder must be provided"
    ELSE IF a.isdir THEN NoError
    ELSE "ValueError: provided path is not a folder"

\* Preprocess.__init__, first half: self.argv = argv; self._cli_arg_parser()
\* (line 157 reads sys.argv, which is the same list when run as __main__)
cli_arg_parser ==
    /\ pc = "main"
    /\ \E a \in Argvs :
         /\ argv' = a
         /\ IF arg_error(a) # NoError
            THEN Raise(arg_error(a))
            ELSE pc' = "file_filter" /\ err' = err
    /\ UNCHANGED <<files, idx, pms, tempos, keys, min_pitchs, max_pitchs, k,
                   report, agg, piano_rolls, result>>

\* (variant: the time-signature count is not looked at)
retains_one_key_only(f) == f.parses /\ f.key_changes = 1

\* The body of the try: the parse raises, or the signature test decides
retains(f) == f.parses /\ f.key_changes = 1 /\ f.time_changes = 1

\* One file of the walk: parse it inside try/except, keep it when it has one
\* key signature and one time signature.
file_filter_visit ==
    /\ pc = "file_filter"
    /\ idx < Len(files)
    /\ idx' = idx + 1
    /\ pms' = IF retains(files[idx + 1]) THEN Append(pms, idx + 1) ELSE pms
    /\ UNCHANGED <<pc, argv, files, tempos, keys, min_pitchs, max_pitchs, k,
                   report, agg, piano_rolls, result, err>>

\* (variant: the walk may be left before its last file)
file_filter_done_early ==
    /\ pc = "file_filter"
    /\ idx <= Len(files)
    /\ pc' = "report"
    /\ k' = 0
    /\ UNCHANGED <<argv, files, idx, pms, tempos, keys, min_pitchs, max_pitchs,
                   report, agg, piano_rolls, result, err>>

\* The walk is over: __init__ returns, __main__ calls piano_roll_filter, which
\* calls generate_midi_files_report.
file_filter_done ==
    /\ pc = "file_filter"
    /\ idx = Len(files)
    /\ pc' = "report"
    /\ k' = 0
    /\ UNCHANGED <<argv, files, idx, pms, tempos, keys, min_pitchs, max_pitchs,
                   report, agg, piano_rolls, result, err>>

\* _get_min_max_pitch: min() and max() of the flattened note pitches; min()
\* of an empty list raises ValueError (see report_step)
get_min_max_pitch(pm) == <<Min(pm.notes), Max(pm.notes)>>

\* (variant: a track without notes is passed over)
report_step_skipping ==
    /\ pc = "report"
    /\ k < Len(pms)
    /\ LET pm == files[pms[k + 1]]
       IN  /\ tempos' = Append(tempos, pm.tempo)
           /\ keys' = Append(keys, pm.key_number)
           /\ k' = k + 1
           /\ IF pm.notes = {}
              THEN UNCHANGED <<min_pitchs, max_pitchs>>
              ELSE /\ max_pitchs' = Append(max_pitchs, get_min_max_pitch(pm)[2])
                   /\ min_pitchs' = Append(min_pitchs, get_min_max_pitch(pm)[1])
    /\ UNCHANGED <<pc, err, argv, files, idx, pms, report, agg, piano_rolls, result>>

\* One iteration of the loop of generate_midi_files_report
report_step ==
    /\ pc = "report"
    /\ k < Len(pms)
    /\ LET pm == files[pms[k + 1]]
           mm == get_min_max_pitch(pm)
       IN  /\ tempos' = Append(tempos, pm.tempo)
           /\ keys' = Append(keys, pm.key_number)
           /\ IF pm.notes = {}
              THEN /\ Raise("ValueError: min() arg is an empty sequence")
                   /\ UNCHANGED <<min_pitchs, max_pitchs, k>>
              ELSE /\ max_pitchs' = Append(max_pitchs, mm[2])
                   /\ min_pitchs' = Append(min_pitchs, mm[1])
                   /\ k' = k + 1
                   /\ UNCHANGED <<pc, err>>
    /\ UNCHANGED <<argv, files, idx, pms, report, agg, piano_rolls, result>>

\* End of generate_midi_files_report (self.report = FileReport(...)), then
\* report.aggregation_report() in piano_roll_filter.
aggregate ==
    /\ pc = "report"
    /\ k = Len(pms)
    /\ LET r == [tempos |-> tempos, freq_key |-> Counter(keys),
                 min_pitch |-> min_pitchs, max_pitch |-> max_pitchs]
       IN  /\ report' = r
           /\ IF r.freq_key = <<>>
              THEN /\ Raise("IndexError: list index out of range")
                   /\ UNCHANGED <<agg, k>>
              ELSE /\ agg' = aggregation_report(r)
                   /\ pc' = "filter"
                   /\ k' = 0
                   /\ err' = err
    /\ UNCHANGED <<argv, files, idx, pms, tempos, keys, min_pitchs, max_pitchs,
                   piano_rolls, result>>

\* (variant: the slice stops one row early)
sliced_piano_roll_short(i, left, right) ==
    [track |-> i,
     shape |-> <<SliceLen(PitchRows, left, right), files[i].frames>>,
     time  |-> [t \in 1..files[i].frames |-> i]]

\* pm.get_piano_roll()[left : right + 1]: a matrix by its shape and, along
\* the time axis, the track each frame comes from.
sliced_piano_roll(i, left, right) ==
    [track |-> i,
     shape |-> <<SliceLen(PitchRows, left, right + 1), files[i].frames>>,
     time  |-> [t \in 1..files[i].frames |-> i]]

\* (variant: "or" for "and" between the two tests)
admits_either(pm, a) ==
    LET mm == get_min_max_pitch(pm)
    IN  \/ is_in_tempo_range(pm.tempo, a.temp_mean, a.temp_std)
        \/ is_in_pitch_range(mm[1], mm[2], a.min_pitch, a.max_pitch)

admits(pm, a) ==
    LET mm == get_min_max_pitch(pm)
    IN  /\ is_in_tempo_range(pm.tempo, a.temp_mean, a.temp_std)
        /\ is_in_pitch_range(mm[1], mm[2], a.min_pitch, a.max_pitch)

\* One iteration of the loop of piano_roll_filter
filter_step ==
    /\ pc = "filter"
    /\ k < Len(pms)
    /\ k' = k + 1
    /\ piano_rolls' =
         IF admits(files[pms[k + 1]], agg)
         THEN Append(piano_rolls,
                     sliced_piano_roll(pms[k + 1], agg.min_pitch, agg.max_pitch))
         ELSE piano_rolls
    /\ UNCHANGED <<pc, argv, files, idx, pms, tempos, keys, min_pitchs,
                   max_pitchs, report, agg, result, err>>

RECURSIVE ConcatTime(_)
ConcatTime(ms) == IF ms = <<>> THEN <<>> ELSE ms[1].time \o ConcatTime(Tail(ms))

\* np.hstack of the collected rolls (an empty list raises ValueError, so do
\* rolls of different heights), then .T; __main__ prints the shape.
hstack ==
    /\ pc = "filter"
    /\ k = Len(pms)
    /\ IF piano_rolls = <<>>
       THEN /\ Raise("ValueError: need at least one array to concatenate")
            /\ UNCHANGED result
       ELSE IF \E i \in 1..Len(piano_rolls) :
                  piano_rolls[i].shape[1] # piano_rolls[1].shape[1]
            THEN /\ Raise("ValueError: all the input array dimensions must match")
                 /\ UNCHANGED result
            ELSE /\ result' = [shape |-> <<Len(ConcatTime(piano_rolls)),
                                           piano_rolls[1].shape[1]>>,
                               time  |-> ConcatTime(piano_rolls)]
                 /\ pc' = "exit0"
                 /\ err' = err
    /\ UNCHANGED <<argv, files, idx, pms, tempos, keys, min_pitchs, max_pitchs,
                   k, report, agg, piano_rolls>>

Next ==
    \/ cli_arg_parser
    \/ file_filter_visit
    \/ file_filter_done
    \/ report_step
    \/ aggregate
    \/ filter_step
    \/ hstack

Spec == Init /\ [][Next]_vars

\* ================================================================ claims
ValidArgs == argv # None /\ argv.len = 2 /\ argv.isdir
Loaded    == ValidArgs /\ pc # "file_filter"
Ended     == pc \in {"exit0", "exit1"}

EmptyCorpusError == "ValueError: need at least one array to concatenate"
EmptyTrackError  == "ValueError: min() arg is an empty sequence"

\* The track at position j of self.pms
Track(j) == files[pms[j]]
HasRoll(j) == \E r \in 1..Len(piano_rolls) : piano_rolls[r].track = pms[j]

\* ---- C1
RECURSIVE KeptUpTo(_)
KeptUpTo(n) ==
    IF n = 0 THEN <<>>
    ELSE IF files[n].parses /\ files[n].key_changes = 1 /\ files[n].time_changes = 1
         THEN Append(KeptUpTo(n - 1), n)
         ELSE KeptUpTo(n - 1)

InInterval(j) ==
    /\ fsub(agg.temp_mean, agg.temp_std) < Track(j).tempo
    /\ Track(j).tempo < fadd(agg.temp_mean, agg.temp_std)
InPitchBounds(j) ==
    /\ Min(Track(j).notes) >= agg.min_pitch
    /\ Max(Track(j).notes) <= agg.max_pitch

C3_EmptyCorpusAtAssembly ==
    (ValidArgs /\ Ended /\ pms = <<>>) => (pc = "exit1" /\ err = EmptyCorpusError)

\* ---- C4
\* C4: a wrong argument count or a path that is no directory raises the
\* invalid-path error and no file is ever visited; files are visited only
\* once the argument check has passed.
C4_ArgsBeforeWalk ==
    /\ (argv # None /\ (argv.len # 2 \/ ~argv.isdir)) =>
          /\ pc = "exit1"
          /\ err \in {"ValueError: path of folder must be provided",
                      "ValueError: provided path is not a folder"}
          /\ idx = 0 /\ pms = <<>>
    /\ idx > 0 => ValidArgs

C4_Witness ==
    /\ pc = "exit1" /\ argv.len = 2 /\ ~argv.isdir
    /\ Len(files) > 0 /\ idx = 0

\* ---- C5
RECURSIVE AdmittedUpTo(_)
AdmittedUpTo(n) ==
    IF n = 0 THEN <<>>
    ELSE IF InInterval(n) /\ InPitchBounds(n)
         THEN Append(AdmittedUpTo(n - 1), pms[n])
         ELSE AdmittedUpTo(n - 1)

RECURSIVE EndToEnd(_)
EndToEnd(is) ==
    IF is = <<>> THEN <<>>
    ELSE [t \in 1..files[is[1]].frames |-> is[1]] \o EndToEnd(Tail(is))

\* C5: a returned matrix has one row per frame of every admitted track, the
\* tracks following each other in input order, and high - low + 1 columns.
C5_ResultShape ==
    result # None =>
        /\ result.time = EndToEnd(AdmittedUpTo(Len(pms)))
        /\ result.shape = <<Len(EndToEnd(AdmittedUpTo(Len(pms)))),
                            agg.max_pitch - agg.min_pitch + 1>>

C5_Witness ==
    /\ result # None
    /\ Len(piano_rolls) = 2
    /\ piano_rolls[1].shape[2] # piano_rolls[2].shape[2]
    /\ result.shape[1] = piano_rolls[1].shape[2] + piano_rolls[2].shape[2]

\* ---- C6
SameTempos == \A i, j \in 1..Len(pms) : Track(i).tempo = Track(j).tempo

\* C6: when the tempos' standard deviation is 0 (one track, or equal tempos)
\* no track is admitted and the run ends in the empty-corpus error.
C6_ZeroStd ==
    (agg # None /\ (agg.temp_std = 0 \/ SameTempos)) =>
        /\ piano_rolls = <<>>
        /\ result = None
        /\ Ended => (pc = "exit1" /\ err = EmptyCorpusError)

C6_Witness ==
    /\ pc = "exit1" /\ err = EmptyCorpusError
    /\ agg # None /\ agg.temp_std = 0
    /\ Len(pms) >= 2
    /\ \E j \in 1..Len(pms) : InPitchBounds(j)

\* ---- C7
\* C7: a retained track without notes aborts the run in the report loop: the
\* loop stops at that track, nothing is aggregated, filtered or returned, and
\* the error reaches the top level.
C7_EmptyTrackAborts ==
    \A j \in 1..Len(pms) :
        (Track(j).notes = {} /\ Loaded) =>
            /\ pc \in {"report", "exit1"}
            /\ k < j
            /\ report = None /\ agg = None /\ piano_rolls = <<>> /\ result = None
            /\ pc = "exit1" => err = EmptyTrackError

C7_Witness ==
    /\ pc = "exit1" /\ err = EmptyTrackError
    /\ Len(pms) = 3
    /\ Track(1).notes # {} /\ Track(2).notes = {} /\ Track(3).notes # {}
    /\ k = 1

\* ---- C8
Rank(p) ==
    CASE p = "main" -> 0
      [] p = "file_filter" -> 1
      [] p = "report" -> 2
      [] p = "filter" -> 3
      [] OTHER -> 4

StagesInOrder ==
    /\ pc \in {"main", "file_filter"} =>
          tempos = <<>> /\ report = None /\ agg = None /\ piano_rolls = <<>>
    /\ pc = "report" =>
          idx = Len(files) /\ agg = None /\ piano_rolls = <<>>
    /\ pc = "filter" =>
          /\ idx = Len(files)
          /\ Len(tempos) = Len(pms) /\ Len(min_pitchs) = Len(pms)
          /\ report # None /\ agg # None
    /\ result # None => (k = Len(pms) /\ agg # None)

\* C8 as stated: the stages follow each other, each done with every track
\* before the next starts; no piano roll exists before every track has been
\* decided.
C8_StagesDisjoint ==
    /\ StagesInOrder
    /\ piano_rolls # <<>> => k = Len(pms)

\* C8 amended: loading, the report, aggregation and the concatenation follow
\* each other and never go back, each done with every track; the admission
\* test and the computation of the piano roll share one loop, track by track.
C8_StagesInOrder ==
    [][Rank(pc') >= Rank(pc) /\ StagesInOrder' /\ Len(piano_rolls') <= k']_vars

C8_Witness ==
    /\ pc = "filter"
    /\ piano_rolls # <<>>
    /\ k < Len(pms)

\* ---- C9
RECURSIVE SumMin(_)
SumMin(n) == IF n = 0 THEN 0 ELSE Min(Track(n).notes) + SumMin(n - 1)
RECURSIVE SumMax(_)
SumMax(n) == IF n = 0 THEN 0 ELSE Max(Track(n).notes) + SumMax(n - 1)

\* C9: the pitch bounds are the truncated means of the tracks' lowest and
\* highest pitches, and low <= high.
C9_BoundsOrdered ==
    agg # None =>
        LET n == Len(pms)
        IN  /\ agg.min_pitch <= agg.max_pitch
            /\ n * agg.min_pitch <= SumMin(n) /\ SumMin(n) < n * (agg.min_pitch + 1)
            /\ n * agg.max_pitch <= SumMax(n) /\ SumMax(n) < n * (agg.max_pitch + 1)

C9_Witness ==
    /\ agg # None
    /\ agg.min_pitch < agg.max_pitch
    /\ SumMin(Len(pms)) % Len(pms) # 0
    /\ SumMax(Len(pms)) % Len(pms) # 0

\* ---- C10
\* C10 as stated: with at most two retained tracks nothing is admitted and
\* nothing is returned.
C10_AtMostTwoNeverAdmitted ==
    Len(pms) <= 2 => (piano_rolls = <<>> /\ result = None)

\* C10 amended: with one retained track, or two of the same tempo, nothing
\* is admitted and nothing is returned.
C10_OneOrEqualPair ==
    (Len(pms) = 1 \/ (Len(pms) = 2 /\ SameTempos)) =>
        (piano_rolls = <<>> /\ result = None)

C10_Witness ==
    /\ pc = "exit1" /\ err = EmptyCorpusError
    /\ Len(pms) = 2 /\ SameTempos
    /\ \A j \in 1..2 : InPitchBounds(j)

====
